---- MODULE Spec2Model ----
(***************************************************************************)
(* Model of src/src/calculator.py: four functions add, subtract, multiply  *)
(* and divide over Python numbers (int and float).                         *)
(*                                                                         *)
(* A Python number is modelled as a record [t, n, d]:                      *)
(*   t = "int",   d = 1          the int n (Python ints are unbounded);    *)
(*   t = "float", d > 0          the finite float n/d (lowest terms);      *)
(*   t = "float", d = 0          inf (n = 1), -inf (n = -1), nan (n = 0).  *)
(* The float format is IEEE-754 binary, round-half-even, with gradual      *)
(* underflow; its precision and exponent range are scaled down from        *)
(* binary64 (53 bits, 2^1024, 2^-1074) to FloatPrec, FloatMaxExp and       *)
(* FloatDenormExp so that rounding, overflow and underflow happen on       *)
(* small numbers.  The sign of a float zero is not modelled: no operation  *)
(* of the module can tell 0.0 from -0.0 (== does not, and a zero divisor   *)
(* never reaches the division).                                            *)
(***************************************************************************)
EXTENDS Integers, Sequences, FiniteSets, TLC

\* Scaled float format (binary64: 53, 1024, 1074).
FloatPrec == 3
FloatMaxExp == 4
FloatDenormExp == 3

\* ------------------------------------------------------------------------
\* Integer helpers
\* ------------------------------------------------------------------------
Abs(x) == IF x < 0 THEN -x ELSE x

Sign(x) == IF x < 0 THEN -1 ELSE IF x > 0 THEN 1 ELSE 0

Max(x, y) == IF x >= y THEN x ELSE y

RECURSIVE Pow2(_)
Pow2(k) == IF k <= 0 THEN 1 ELSE 2 * Pow2(k - 1)

RECURSIVE GCD(_, _)
GCD(x, y) == IF y = 0 THEN x ELSE GCD(y, x % y)

\* floor(log2(num/den)) for num, den > 0
RECURSIVE Log2Floor(_, _)
Log2Floor(num, den) ==
    IF num >= 2 * den THEN 1 + Log2Floor(num, 2 * den)
    ELSE IF num < den THEN Log2Floor(2 * num, den) - 1
    ELSE 0

\* ------------------------------------------------------------------------
\* Python numbers
\* ------------------------------------------------------------------------
PyInt(n) == [t |-> "int", n |-> n, d |-> 1]

\* the finite float of value n/d (d > 0), in lowest terms
PyFloat(n, d) ==
    LET g == GCD(Abs(n), d)
    IN  [t |-> "float", n |-> n \div g, d |-> d \div g]

NaN == [t |-> "float", n |-> 0, d |-> 0]

Inf(s) == [t |-> "float", n |-> s, d |-> 0]

IsInt(x) == x.t = "int"

IsFloat(x) == x.t = "float"

IsNaN(x) == x.t = "float" /\ x.d = 0 /\ x.n = 0

IsInf(x) == x.t = "float" /\ x.d = 0 /\ x.n # 0

IsFinite(x) == x.d # 0

\* round the rational n/d (d > 0) to the nearest float, ties to even;
\* a magnitude that rounds to 2^FloatMaxExp or more becomes an infinity
RoundToFloat(n, d) ==
    IF n = 0 THEN PyFloat(0, 1)
    ELSE
      LET e   == Log2Floor(Abs(n), d)
          qe  == Max(e - (FloatPrec - 1), -FloatDenormExp)
          num == Abs(n) * Pow2(-qe)
          den == d * Pow2(qe)
          m0  == num \div den
          rem == num - m0 * den
          m   == IF 2 * rem > den THEN m0 + 1
                 ELSE IF 2 * rem < den THEN m0
                 ELSE m0 + (m0 % 2)
      IN  IF m * Pow2(qe) >= Pow2(FloatMaxExp) * Pow2(-qe)
          THEN Inf(Sign(n))
          ELSE PyFloat(Sign(n) * m * Pow2(qe), Pow2(-qe))

\* ------------------------------------------------------------------------
\* Python arithmetic.  An outcome is what a call (or an operator) produces:
\* a returned value or a raised exception.
\* ------------------------------------------------------------------------
NoValue == [t |-> "none", n |-> 0, d |-> 0]

Return(v) == [k |-> "return", v |-> v, exc |-> "", msg |-> "", lines |-> <<>>]

Raise(exc, msg) ==
    [k |-> "raise", v |-> NoValue, exc |-> exc, msg |-> msg, lines |-> <<>>]

NoOutcome == [k |-> "none", v |-> NoValue, exc |-> "", msg |-> "", lines |-> <<>>]

\* the outcome o of a function body that executed the source lines ls
Executed(ls, o) == [o EXCEPT !.lines = ls]

\* float(x) for an int x: OverflowError when it rounds out of range
CanConvert(x) == IsFloat(x) \/ IsFinite(RoundToFloat(x.n, 1))

ToFloat(x) == IF IsFloat(x) THEN x ELSE RoundToFloat(x.n, 1)

ConvertError == Raise("OverflowError", "int too large to convert to float")

\* x == 0 (Python compares an int and a float by value; nan equals nothing)
PyEqZero(x) == x.d # 0 /\ x.n = 0

\* x == y
PyEq(x, y) ==
    IF IsNaN(x) \/ IsNaN(y) THEN FALSE
    ELSE IF x.d = 0 \/ y.d = 0 THEN x.d = y.d /\ x.n = y.n
    ELSE x.n * y.d = y.n * x.d

\* float + float
FloatAdd(x, y) ==
    IF IsNaN(x) \/ IsNaN(y) THEN NaN
    ELSE IF IsInf(x) /\ IsInf(y) THEN (IF x.n = y.n THEN x ELSE NaN)
    ELSE IF IsInf(x) THEN x
    ELSE IF IsInf(y) THEN y
    ELSE RoundToFloat(x.n * y.d + y.n * x.d, x.d * y.d)

\* -x
FloatNeg(x) == [x EXCEPT !.n = -x.n]

\* float - float
FloatSub(x, y) == FloatAdd(x, FloatNeg(y))

\* float * float
FloatMul(x, y) ==
    IF IsNaN(x) \/ IsNaN(y) THEN NaN
    ELSE IF IsInf(x) \/ IsInf(y)
         THEN (IF x.n = 0 \/ y.n = 0 THEN NaN ELSE Inf(Sign(x.n) * Sign(y.n)))
    ELSE RoundToFloat(x.n * y.n, x.d * y.d)

\* float / float, y # 0
FloatDiv(x, y) ==
    IF IsNaN(x) \/ IsNaN(y) THEN NaN
    ELSE IF IsInf(x) THEN (IF IsInf(y) THEN NaN ELSE Inf(x.n * Sign(y.n)))
    ELSE IF IsInf(y) THEN PyFloat(0, 1)
    ELSE RoundToFloat(Sign(y.n) * x.n * y.d, Abs(y.n) * x.d)

\* x + y
PyAdd(x, y) ==
    IF IsInt(x) /\ IsInt(y) THEN Return(PyInt(x.n + y.n))
    ELSE IF ~(CanConvert(x) /\ CanConvert(y)) THEN ConvertError
    ELSE Return(FloatAdd(ToFloat(x), ToFloat(y)))

\* x - y
PySub(x, y) ==
    IF IsInt(x) /\ IsInt(y) THEN Return(PyInt(x.n - y.n))
    ELSE IF ~(CanConvert(x) /\ CanConvert(y)) THEN ConvertError
    ELSE Return(FloatSub(ToFloat(x), ToFloat(y)))

\* x * y
PyMul(x, y) ==
    IF IsInt(x) /\ IsInt(y) THEN Return(PyInt(x.n * y.n))
    ELSE IF ~(CanConvert(x) /\ CanConvert(y)) THEN ConvertError
    ELSE Return(FloatMul(ToFloat(x), ToFloat(y)))

\* x / y (true division): int / int is the correctly rounded quotient
PyTrueDiv(x, y) ==
    IF IsInt(x) /\ IsInt(y) THEN
        IF y.n = 0 THEN Raise("ZeroDivisionError", "division by zero")
        ELSE LET q == RoundToFloat(Sign(y.n) * x.n, Abs(y.n))
             IN  IF IsInf(q)
                 THEN Raise("OverflowError",
                            "integer division result too large for a float")
                 ELSE Return(q)
    ELSE IF ~(CanConvert(x) /\ CanConvert(y)) THEN ConvertError
    ELSE IF PyEqZero(y) THEN Raise("ZeroDivisionError", "float division by zero")
    ELSE Return(FloatDiv(ToFloat(x), ToFloat(y)))

\* -x
PyNeg(x) == IF IsInt(x) THEN PyInt(-x.n) ELSE FloatNeg(x)

\* ------------------------------------------------------------------------
\* The module's functions
\* ------------------------------------------------------------------------
\* mutant: subtracts
add_Subtracts(a, b) == Executed(<<14>>, PySub(a, b))

add(a, b) == Executed(<<14>>, PyAdd(a, b))

\* mutants: second argument minus first; the absolute difference
subtract_Reversed(a, b) == Executed(<<32, 33>>, PySub(b, a))

subtract_Abs(a, b) ==
    LET o == PySub(a, b)
    IN  Executed(<<32, 33>>,
                 IF o.k = "return" /\ o.v.n < 0 THEN Return(PyNeg(o.v)) ELSE o)

\* line 32 binds a local that is never read and dies with the frame
subtract(a, b) == Executed(<<32, 33>>, PySub(a, b))

\* mutant: squares the first argument
multiply_Squares(a, b) == Executed(<<46>>, PyMul(a, a))

multiply(a, b) == Executed(<<46>>, PyMul(a, b))

\* mutants: no guard before the division; floor division of ints; the guard
\* on the dividend; the guard on either argument; divisor over dividend
divide_DivideFirst(a, b) == Executed(<<64>>, PyTrueDiv(a, b))

divide_Floor(a, b) ==
    IF PyEqZero(b)
    THEN Executed(<<62, 63>>, Raise("ValueError", "Cannot divide by zero"))
    ELSE IF IsInt(a) /\ IsInt(b)
    THEN Executed(<<62, 64>>, Return(PyInt((Sign(b.n) * a.n) \div Abs(b.n))))
    ELSE Executed(<<62, 64>>, PyTrueDiv(a, b))

divide_GuardOnA(a, b) ==
    IF PyEqZero(a)
    THEN Executed(<<62, 63>>, Raise("ValueError", "Cannot divide by zero"))
    ELSE Executed(<<62, 64>>, PyTrueDiv(a, b))

divide_GuardEither(a, b) ==
    IF PyEqZero(a) \/ PyEqZero(b)
    THEN Executed(<<62, 63>>, Raise("ValueError", "Cannot divide by zero"))
    ELSE Executed(<<62, 64>>, PyTrueDiv(a, b))

divide_Swapped(a, b) ==
    IF PyEqZero(b)
    THEN Executed(<<62, 63>>, Raise("ValueError", "Cannot divide by zero"))
    ELSE Executed(<<62, 64>>, PyTrueDiv(b, a))

divide(a, b) ==
    IF PyEqZero(b)
    THEN Executed(<<62, 63>>, Raise("ValueError", "Cannot divide by zero"))
    ELSE Executed(<<62, 64>>, PyTrueDiv(a, b))

\* ------------------------------------------------------------------------
\* Callers.  A caller pushes a frame with two arguments, the function body
\* runs to its return or raise, and the caller holds the outcome until it
\* discards it or passes the returned value on as the first argument of its
\* next call.
\* ------------------------------------------------------------------------
\* longest run of calls that each take the previous call's value
MaxChain == 1

Callers == {1, 2}

Ops == {"add", "subtract", "multiply", "divide"}

\* the largest finite float and the smallest positive (subnormal) float
MaxFloat == PyFloat((Pow2(FloatPrec) - 1) * Pow2(FloatMaxExp - FloatPrec), 1)

MinFloat == PyFloat(1, Pow2(FloatDenormExp))

\* an int float() must round, and an int beyond the range of float
OddInt == PyInt(Pow2(FloatPrec) + 1)

HugeInt == PyInt(Pow2(FloatMaxExp + 1))

IntArgs == {PyInt(-2), PyInt(0), PyInt(2), PyInt(7), PyInt(10), OddInt, HugeInt}

FloatArgs ==
    {PyFloat(0, 1), PyFloat(1, 2), PyFloat(-5, 2), MaxFloat, MinFloat, Inf(1), NaN}

Args == IntArgs \cup FloatArgs

\* arguments of the two-caller specification
ConcArgs == {PyInt(0), PyInt(7), PyFloat(1, 2), NaN}

NoFrame == [op |-> "none", a |-> NoValue, b |-> NoValue]

NoOrigin == [op |-> "none", a |-> NoValue, b |-> NoValue, out |-> NoOutcome]

VARIABLES pc, frame, result, origin, depth

vars == <<pc, frame, result, origin, depth>>

Init ==
    /\ pc = [c \in Callers |-> "idle"]
    /\ frame = [c \in Callers |-> NoFrame]
    /\ result = [c \in Callers |-> NoOutcome]
    /\ origin = [c \in Callers |-> NoOrigin]
    /\ depth = [c \in Callers |-> 0]

\* caller c calls f(x, y)
Call(c, f, x, y) ==
    /\ pc[c] = "idle"
    /\ result[c] = NoOutcome
    /\ pc' = [pc EXCEPT ![c] = "called"]
    /\ frame' = [frame EXCEPT ![c] = [op |-> f, a |-> x, b |-> y]]
    /\ UNCHANGED <<result, origin, depth>>

\* caller c calls f(v, y), v the value its last call returned
CallWithResult(c, f, y) ==
    /\ pc[c] = "idle"
    /\ result[c].k = "return"
    /\ depth[c] < MaxChain
    /\ pc' = [pc EXCEPT ![c] = "called"]
    /\ frame' = [frame EXCEPT ![c] = [op |-> f, a |-> result[c].v, b |-> y]]
    /\ origin' = [origin EXCEPT ![c] =
                    [op |-> frame[c].op, a |-> frame[c].a, b |-> frame[c].b,
                     out |-> result[c]]]
    /\ result' = [result EXCEPT ![c] = NoOutcome]
    /\ depth' = [depth EXCEPT ![c] = @ + 1]

\* the body of f runs in c's frame and hands its outcome to c
Finish(c, out) ==
    /\ pc' = [pc EXCEPT ![c] = "idle"]
    /\ result' = [result EXCEPT ![c] = out]
    /\ UNCHANGED <<frame, origin, depth>>

RunAdd(c) ==
    /\ pc[c] = "called"
    /\ frame[c].op = "add"
    /\ Finish(c, add(frame[c].a, frame[c].b))

RunSubtract(c) ==
    /\ pc[c] = "called"
    /\ frame[c].op = "subtract"
    /\ Finish(c, subtract(frame[c].a, frame[c].b))

RunMultiply(c) ==
    /\ pc[c] = "called"
    /\ frame[c].op = "multiply"
    /\ Finish(c, multiply(frame[c].a, frame[c].b))

\* mutant: the divisor is read from a slot the callers share
RunDivide_SharedArg(c) ==
    /\ pc[c] = "called"
    /\ frame[c].op = "divide"
    /\ LET e == CHOOSE x \in Callers : x # c
           b == IF frame[e].op = "none" THEN frame[c].b ELSE frame[e].b
       IN  Finish(c, divide(frame[c].a, b))

RunDivide(c) ==
    /\ pc[c] = "called"
    /\ frame[c].op = "divide"
    /\ Finish(c, divide(frame[c].a, frame[c].b))

\* caller c drops the outcome it holds (or handles the exception)
Discard(c) ==
    /\ pc[c] = "idle"
    /\ result[c] # NoOutcome
    /\ pc' = pc
    /\ frame' = [frame EXCEPT ![c] = NoFrame]
    /\ result' = [result EXCEPT ![c] = NoOutcome]
    /\ origin' = [origin EXCEPT ![c] = NoOrigin]
    /\ depth' = [depth EXCEPT ![c] = 0]

\* one caller, every argument, chained calls
Next ==
    \/ \E f \in Ops, x \in Args, y \in Args : Call(1, f, x, y)
    \/ \E f \in Ops, y \in Args : CallWithResult(1, f, y)
    \/ RunAdd(1)
    \/ RunSubtract(1)
    \/ RunMultiply(1)
    \/ RunDivide(1)
    \/ Discard(1)

Spec == Init /\ [][Next]_vars

\* two callers whose calls interleave
NextConc ==
    \E c \in Callers :
        \/ \E f \in Ops, x \in ConcArgs, y \in ConcArgs : Call(c, f, x, y)
        \/ RunAdd(c)
        \/ RunSubtract(c)
        \/ RunMultiply(c)
        \/ RunDivide(c)
        \/ Discard(c)

SpecConc == Init /\ [][NextConc]_vars

\* ------------------------------------------------------------------------
\* Well-formedness of the model's values
\* ------------------------------------------------------------------------
\* a float value is an infinity, nan, or a float of the format
WellFormed(x) ==
    \/ x = NoValue
    \/ IsInt(x) /\ x.d = 1
    \/ IsFloat(x) /\ x.d = 0 /\ x.n \in {-1, 0, 1}
    \/ IsFloat(x) /\ x.d > 0 /\ RoundToFloat(x.n, x.d) = x

TypeOK ==
    \A c \in Callers :
        /\ pc[c] \in {"idle", "called"}
        /\ frame[c].op \in Ops \cup {"none"}
        /\ WellFormed(frame[c].a) /\ WellFormed(frame[c].b)
        /\ result[c].k \in {"none", "return", "raise"}
        /\ WellFormed(result[c].v)
        /\ (result[c].k = "return") = (result[c].v # NoValue)
        /\ depth[c] \in 0..MaxChain

\* ------------------------------------------------------------------------
\* Properties
\* ------------------------------------------------------------------------
\* caller c holds the outcome of the completed call frame[c]
Done(c) == pc[c] = "idle" /\ result[c] # NoOutcome

DoneOp(c, f) == Done(c) /\ frame[c].op = f

LinesOf(o) == {o.lines[i] : i \in 1..Len(o.lines)}

\* the outcome of evaluating -f(...) from the outcome of f(...)
NegOutcome(o) == IF o.k = "return" THEN [o EXCEPT !.v = PyNeg(o.v)] ELSE o

\* C1: divide(a, 0) raises ValueError("Cannot divide by zero") for every a,
\* returns no value, and line 64 (the division) is not executed.
C1_DivideByZeroRaises ==
    \A c \in Callers :
        DoneOp(c, "divide") /\ PyEqZero(frame[c].b) =>
            /\ result[c].k = "raise"
            /\ result[c].exc = "ValueError"
            /\ result[c].msg = "Cannot divide by zero"
            /\ result[c].v = NoValue
            /\ 64 \notin LinesOf(result[c])

\* divide(0, 0.0) and divide(nan, 0) have both raised
C1_Witness ==
    /\ DoneOp(1, "divide")
    /\ frame[1].b = PyFloat(0, 1)
    /\ frame[1].a \in {PyInt(0), NaN}
    /\ result[1].exc = "ValueError"

\* the reference result of op on ints (exact) and on finite operands that
\* convert to float (the exact result, rounded once); Python's operator
\* on the rest
IntRef(f, x, y) ==
    IF f = "add" THEN x + y ELSE IF f = "subtract" THEN x - y ELSE x * y

ExactRef(f, x, y) ==
    IF f = "add" THEN RoundToFloat(x.n * y.d + y.n * x.d, x.d * y.d)
    ELSE IF f = "subtract" THEN RoundToFloat(x.n * y.d - y.n * x.d, x.d * y.d)
    ELSE RoundToFloat(x.n * y.n, x.d * y.d)

PyRef(f, x, y) ==
    IF f = "add" THEN PyAdd(x, y)
    ELSE IF f = "subtract" THEN PySub(x, y) ELSE PyMul(x, y)

Reference(f, x, y) ==
    IF IsInt(x) /\ IsInt(y) THEN Return(PyInt(IntRef(f, x.n, y.n)))
    ELSE IF IsFinite(x) /\ IsFinite(y) /\ CanConvert(x) /\ CanConvert(y)
         THEN Return(ExactRef(f, ToFloat(x), ToFloat(y)))
    ELSE PyRef(f, x, y)

\* C3: add(a, b) is a + b, subtract(a, b) is a - b (not b - a) and
\* multiply(a, b) is a * b: the outcome of each call is that of the
\* reference operator on the call's arguments, in the call's order.
C3_MatchesReference ==
    \A c \in Callers :
        Done(c) /\ frame[c].op \in {"add", "subtract", "multiply"} =>
            /\ result[c].k = Reference(frame[c].op, frame[c].a, frame[c].b).k
            /\ result[c].v = Reference(frame[c].op, frame[c].a, frame[c].b).v
            /\ result[c].exc = Reference(frame[c].op, frame[c].a, frame[c].b).exc

\* subtract(-2, 7) has returned -9
C3_Witness ==
    /\ DoneOp(1, "subtract")
    /\ frame[1].a = PyInt(-2) /\ frame[1].b = PyInt(7)
    /\ result[1].v = PyInt(-9)

Quanta(x) == x.n * (Pow2(FloatDenormExp) \div x.d)

\* n/d is so large that it rounds out of the float range: at least
\* 2^FloatMaxExp less half a unit in the last place
TooLarge(n, d) ==
    Abs(n) * Pow2(FloatPrec + 1)
        >= d * Pow2(FloatMaxExp) * (Pow2(FloatPrec + 1) - 1)

\* |q - a/b| is within rounding error: at most |a/b| * 2^(2 - FloatPrec)
\* plus two of the smallest float (finite q, a, b; b # 0)
QuotientClose(q, a, b) ==
    Abs(Quanta(q) * Quanta(b) - Quanta(a) * Pow2(FloatDenormExp))
            * Pow2(FloatPrec - 2)
        <= Abs(Quanta(a)) * Pow2(FloatDenormExp)
            + Pow2(FloatPrec - 1) * Abs(Quanta(b))

\* |r - a| is within rounding error: at most |a| * 2^(2 - FloatPrec) plus
\* max(1, |b|) times two of the smallest float (finite r, a, b)
ProductClose(r, a, b) ==
    Abs(Quanta(r) - Quanta(a)) * Pow2(FloatPrec - 2) * Pow2(FloatDenormExp)
        <= Abs(Quanta(a)) * Pow2(FloatDenormExp)
            + Pow2(FloatPrec - 1)
                * Max(Pow2(FloatDenormExp), Abs(Quanta(b)))

\* x is used as it is: it is a float, or an int that float() keeps exact
Exact(x) == IsFloat(x) \/ (CanConvert(x) /\ PyEq(ToFloat(x), x))

\* the arithmetic sees a and b exactly and a/b is a float of the format
ExactQuotient(a, b) ==
    /\ (IsInt(a) /\ IsInt(b)) \/ (Exact(a) /\ Exact(b))
    /\ LET q == RoundToFloat(Sign(b.n) * a.n * b.d, Abs(b.n) * a.d)
       IN  IsFinite(q) /\ q.n * Abs(b.n) * a.d = Sign(b.n) * a.n * b.d * q.d

\* a completed divide(a, b) with b # 0
Divided(c) == DoneOp(c, "divide") /\ ~PyEqZero(frame[c].b)

C4_Original ==
    \A c \in Callers :
        Done(c) =>
            IF frame[c].op = "divide"
            THEN (result[c].k = "raise") = PyEqZero(frame[c].b)
            ELSE result[c].k = "return"

\* an int operand too large for float() meets a float operand
Unconvertible(x, y) ==
    /\ ~(IsInt(x) /\ IsInt(y))
    /\ \/ IsInt(x) /\ TooLarge(x.n, 1)
       \/ IsInt(y) /\ TooLarge(y.n, 1)

\* C4, amended: ValueError is raised exactly by divide with b equal to
\* zero; the only other failure, of any of the four functions, is
\* OverflowError, raised exactly when an int operand too large to convert
\* to float meets a float operand, or when divide's quotient of two ints is
\* too large for a float; every other call returns a value.
C4_OnlyFailures ==
    \A c \in Callers :
        Done(c) =>
            LET f == frame[c].op
                a == frame[c].a
                b == frame[c].b
                zero == f = "divide" /\ PyEqZero(b)
            IN  /\ result[c].k \in {"return", "raise"}
                /\ result[c].k = "raise" =>
                      result[c].exc \in {"ValueError", "OverflowError"}
                /\ (result[c].exc = "ValueError") = zero
                /\ (result[c].exc = "OverflowError") =
                      /\ ~zero
                      /\ \/ Unconvertible(a, b)
                         \/ /\ f = "divide"
                            /\ IsInt(a) /\ IsInt(b)
                            /\ TooLarge(a.n, Abs(b.n))

\* add(huge int, 0.5) has raised OverflowError, or divide(7, 0) ValueError
C4_Witness ==
    /\ Done(1)
    /\ \/ /\ frame[1] = [op |-> "add", a |-> HugeInt, b |-> PyFloat(1, 2)]
          /\ result[1].exc = "OverflowError"
       \/ /\ frame[1] = [op |-> "divide", a |-> PyInt(7), b |-> PyInt(0)]
          /\ result[1].exc = "ValueError"

\* caller c has multiplied the value divide(a, b) returned by the same b
RoundTrip(c) ==
    /\ DoneOp(c, "multiply")
    /\ origin[c].op = "divide"
    /\ frame[c].b = origin[c].b

\* r approximately equals a: the same value, or within rounding error
Approx(r, a, b) ==
    \/ r = a
    \/ PyEq(r, a)
    \/ /\ IsFinite(r) /\ IsFinite(a) /\ IsFinite(b)
       /\ ProductClose(r, a, b)

C10_Original ==
    \A c \in Callers :
        Divided(c) /\ PyEqZero(frame[c].a) =>
            result[c].k = "return" /\ PyEq(result[c].v, PyInt(0))

\* C10, amended: for a # 0 that is not nan, divide(0, a) returns a value
\* equal to 0 and raises nothing (with the float 0.0 as dividend, a must not
\* be an int too large to convert to float).
C10_ZeroDividend ==
    \A c \in Callers :
        /\ Divided(c) /\ PyEqZero(frame[c].a)
        /\ ~IsNaN(frame[c].b)
        /\ IsInt(frame[c].a) \/ ~Unconvertible(frame[c].a, frame[c].b)
        => result[c].k = "return" /\ PyEq(result[c].v, PyInt(0))

\* divide(0, huge int) and divide(0.0, -2.5) have returned zero
C10_Witness ==
    /\ DoneOp(1, "divide")
    /\ \/ frame[1].a = PyInt(0) /\ frame[1].b = HugeInt
       \/ frame[1].a = PyFloat(0, 1) /\ frame[1].b = PyFloat(-5, 2)
    /\ result[1].k = "return"
    /\ PyEqZero(result[1].v)

\* two completed calls with the same function and arguments have the
\* same outcome
SameInputsSameOutcome ==
    \A c1, c2 \in Callers :
        Done(c1) /\ Done(c2) /\ frame[c1] = frame[c2] =>
            result[c1] = result[c2]

\* a function body changes nothing but its own caller's outcome
OwnFrameOnly ==
    \A c \in Callers :
        pc[c] = "called" /\ pc'[c] = "idle" =>
            /\ frame' = frame
            /\ \A e \in Callers \ {c} :
                  pc'[e] = pc[e] /\ result'[e] = result[e]

====
